---- MODULE Spec2Model ----
(***************************************************************************)
(* Model of the AMP data-type codec of sim/amp (formats.py, datatype.py).  *)
(*                                                                         *)
(* Octet strings are sequences of integers 0..255.  A Python value that    *)
(* may be None is a sequence of length at most one: None is <<>> and the   *)
(* value v is <<v>>.  A decoder result is a record with an ok flag; ok is  *)
(* FALSE when the decoder raises.                                          *)
(***************************************************************************)
EXTENDS Integers, Sequences, FiniteSets, TLC

VARIABLES pc, pkt, wire, out

vars == <<pc, pkt, wire, out>>

None == <<>>

Some(v) == <<v>>

IsNone(x) == x = <<>>

\* Concatenation of a sequence of octet strings (Python ''.join).
RECURSIVE Join(_)
Join(ss) == IF ss = <<>> THEN <<>> ELSE Head(ss) \o Join(Tail(ss))

\* Python slices s[:l] and s[l:], which clip at the end of s.
Take(s, l) == SubSeq(s, 1, IF l < Len(s) THEN l ELSE Len(s))

Drop(s, l) == SubSeq(s, (IF l < Len(s) THEN l ELSE Len(s)) + 1, Len(s))

(***************************************************************************)
(* sdnv.py is imported by formats.py but is not part of the sources; its   *)
(* three functions follow the Variable-Length Integer Codec of the         *)
(* specification: 7-bit groups, most significant first, high bit set on    *)
(* every octet but the last.                                               *)
(***************************************************************************)
RECURSIVE SdnvGroups(_)
SdnvGroups(n) ==
    IF n < 128 THEN <<n>> ELSE Append(SdnvGroups(n \div 128), n % 128)

int2sdnv(n) ==
    LET g == SdnvGroups(n)
    IN  [i \in 1..Len(g) |-> IF i < Len(g) THEN g[i] + 128 ELSE g[i]]

SdnvFail == [ok |-> FALSE, rest |-> <<>>, val |-> 0]

RECURSIVE SdnvAccum(_, _)
SdnvAccum(s, acc) ==
    IF s = <<>> THEN SdnvFail
    ELSE IF s[1] >= 128 THEN SdnvAccum(Tail(s), acc * 128 + (s[1] - 128))
    ELSE [ok |-> TRUE, rest |-> Tail(s), val |-> acc * 128 + s[1]]

\* Returns the remaining octets and the value, in that order in the code.
sdnv2int(s) == SdnvAccum(s, 0)

RECURSIVE sdnvlen(_)
sdnvlen(n) == IF n < 128 THEN 1 ELSE 1 + sdnvlen(n \div 128)

(***************************************************************************)
(* formats.SdnvField                                                       *)
(***************************************************************************)
\* A faulty variant: a leading zero group is emitted.
SdnvField_i2m_padded(x) == <<128>> \o int2sdnv(IF IsNone(x) THEN 0 ELSE x[1])

SdnvField_i2m(x) == int2sdnv(IF IsNone(x) THEN 0 ELSE x[1])

SdnvField_addfield(s, val) == s \o SdnvField_i2m(val)

\* A faulty variant: the remaining octets are not advanced.
SdnvField_getfield_noadvance(s) == [sdnv2int(s) EXCEPT !.rest = s]

SdnvField_getfield(s) == sdnv2int(s)

(***************************************************************************)
(* Specification SpecSdnv: one SdnvField value is appended to an empty     *)
(* packet, the octets of the following fields come after it, and the       *)
(* field is extracted again.                                               *)
(***************************************************************************)
MaxSmallVal == 3

SdnvEdgeVals ==
    {126, 127, 128, 129, 255, 256, 16383, 16384, 16385,
     2097151, 2097152, 268435455}

SdnvVals == 0..MaxSmallVal \cup SdnvEdgeVals

FollowOctets == {<<>>, <<0>>, <<129, 5>>, <<255>>, <<7, 128>>}

SdnvInit ==
    /\ pc = "sdnv_new"
    /\ pkt \in [value : {None} \cup {Some(n) : n \in SdnvVals},
                follow : FollowOctets]
    /\ wire = <<>>
    /\ out = SdnvFail

SdnvBuild ==
    /\ pc = "sdnv_new"
    /\ wire' = SdnvField_addfield(<<>>, pkt.value) \o pkt.follow
    /\ pc' = "sdnv_built"
    /\ UNCHANGED <<pkt, out>>

SdnvDissect ==
    /\ pc = "sdnv_built"
    /\ out' = SdnvField_getfield(wire)
    /\ pc' = "sdnv_dissected"
    /\ UNCHANGED <<pkt, wire>>

SdnvNext == SdnvBuild \/ SdnvDissect

SpecSdnv == SdnvInit /\ [][SdnvNext]_vars

\* The integer an SdnvField value stands for (None is encoded as zero).
SdnvValueOf(x) == IF IsNone(x) THEN 0 ELSE x[1]

RECURSIVE Pow128(_)
Pow128(k) == IF k = 0 THEN 1 ELSE 128 * Pow128(k - 1)

\* C9: VarInt round-trip: decoding the encoding of n returns n, consumes
\* exactly len(encode(n)) octets, and leaves the following octets as the
\* remainder.
C9_SdnvRoundTrip ==
    pc = "sdnv_dissected" =>
        /\ out.ok
        /\ out.val = SdnvValueOf(pkt.value)
        /\ out.rest = pkt.follow
        /\ Len(wire) - Len(out.rest) = Len(int2sdnv(SdnvValueOf(pkt.value)))

C9_Witness ==
    /\ pc = "sdnv_dissected"
    /\ pkt.value = Some(16384)
    /\ pkt.follow = <<129, 5>>
    /\ out.val = 16384

\* C10: VarInt minimality: encode(n) has the least number k of octets with
\* n < 2^(7k); every octet but the last has its high bit set and the last
\* has it clear; sdnvlen(n) is the length of encode(n).
C10_SdnvMinimal ==
    pc = "sdnv_built" =>
        LET n == SdnvValueOf(pkt.value)
            k == Len(wire) - Len(pkt.follow)
        IN  /\ k >= 1
            /\ n < Pow128(k)
            /\ k > 1 => n >= Pow128(k - 1)
            /\ \A i \in 1..(k - 1) : wire[i] >= 128
            /\ wire[k] < 128
            /\ sdnvlen(n) = k
            /\ SubSeq(wire, k + 1, Len(wire)) = pkt.follow

C10_Witness ==
    /\ pc = "sdnv_built"
    /\ pkt.value = Some(16384)
    /\ SubSeq(wire, 1, 3) = <<129, 128, 0>>

(***************************************************************************)
(* formats.OidField                                                        *)
(***************************************************************************)
\* A faulty variant: it encodes every component on its own, without the merge.
tuple2oidenc_nomerge(oid) ==
    IF Len(oid) < 2 THEN <<>>
    ELSE Join([i \in 1..Len(oid) |-> int2sdnv(oid[i])])

\* A faulty variant: it has no length guard: a single component is encoded as is.
tuple2oidenc_noguard(oid) ==
    IF Len(oid) < 2 THEN Join([i \in 1..Len(oid) |-> int2sdnv(oid[i])])
    ELSE LET parts == <<oid[1] * 40 + oid[2]>> \o SubSeq(oid, 3, Len(oid))
         IN  Join([i \in 1..Len(parts) |-> int2sdnv(parts[i])])

tuple2oidenc(oid) ==
    IF Len(oid) < 2 THEN <<>>
    ELSE LET parts == <<oid[1] * 40 + oid[2]>> \o SubSeq(oid, 3, Len(oid))
         IN  Join([i \in 1..Len(parts) |-> int2sdnv(parts[i])])

OidFail == [ok |-> FALSE, rest |-> <<>>, val |-> <<>>]

\* The while loop of oidenc2tuple; sdnv2int raising ends the decoding.
RECURSIVE OidElements(_, _)
OidElements(data, oid) ==
    IF Len(data) > 0
    THEN LET r == sdnv2int(data)
         IN  IF r.ok THEN OidElements(r.rest, Append(oid, r.val)) ELSE OidFail
    ELSE [ok |-> TRUE, rest |-> <<>>, val |-> oid]

\* A faulty variant: it splits the first octet by 64 instead of 40.
oidenc2tuple_split64(data) ==
    IF Len(data) < 1 THEN [ok |-> TRUE, rest |-> <<>>, val |-> <<>>]
    ELSE OidElements(Tail(data), <<data[1] \div 64, data[1] % 64>>)

oidenc2tuple(data) ==
    IF Len(data) < 1 THEN [ok |-> TRUE, rest |-> <<>>, val |-> <<>>]
    ELSE OidElements(Tail(data), <<data[1] \div 40, data[1] % 40>>)

OidField_i2m(x) == IF IsNone(x) THEN <<>> ELSE tuple2oidenc(x[1])

RECURSIVE SumLen(_)
SumLen(x) == IF x = <<>> THEN 0 ELSE sdnvlen(Head(x)) + SumLen(Tail(x))

OidField_i2len(x) == IF IsNone(x) THEN 0 ELSE SumLen(x[1])

OidField_addfield(s, val) == s \o OidField_i2m(val)

\* length is None for a field without length_from, else the value of
\* length_from(pkt).
OidField_getfield(s, length) ==
    LET l == IF IsNone(length) THEN Len(s) ELSE length[1]
    IN  [oidenc2tuple(Take(s, l)) EXCEPT !.rest = Drop(s, l)]

(***************************************************************************)
(* Specification SpecOid: an identifier is encoded by OidField and the     *)
(* octets are decoded again by a field without length_from; or given       *)
(* octets are decoded.                                                     *)
(***************************************************************************)
MaxOidLen == 3

OidParts == {0, 1, 2, 3, 6, 39, 40, 48, 127, 128, 16384}

OidTuples == UNION {[1..k -> OidParts] : k \in 0..MaxOidLen}

MaxRawLen == 3

RawOctetVals == {0, 6, 43, 48, 129, 255}

RawOctets == UNION {[1..k -> RawOctetVals] : k \in 0..MaxRawLen}

OidInit ==
    /\ \/ /\ pc = "oid_new"
          /\ pkt \in [attr : {None} \cup {Some(t) : t \in OidTuples}]
          /\ wire = <<>>
       \/ /\ pc = "oid_raw"
          /\ pkt = [attr |-> None]
          /\ wire \in RawOctets
    /\ out = OidFail

OidBuild ==
    /\ pc = "oid_new"
    /\ wire' = OidField_addfield(<<>>, pkt.attr)
    /\ pc' = "oid_built"
    /\ UNCHANGED <<pkt, out>>

OidDissect ==
    /\ pc = "oid_built"
    /\ out' = OidField_getfield(wire, None)
    /\ pc' = "oid_dissected"
    /\ UNCHANGED <<pkt, wire>>

OidDissectRaw ==
    /\ pc = "oid_raw"
    /\ out' = OidField_getfield(wire, None)
    /\ pc' = "oid_rawdone"
    /\ UNCHANGED <<pkt, wire>>

OidNext == OidBuild \/ OidDissect \/ OidDissectRaw

SpecOid == OidInit /\ [][OidNext]_vars

\* The identifier being encoded has at least two components.
OidHasTwo == ~IsNone(pkt.attr) /\ Len(pkt.attr[1]) >= 2

\* The identifier is one ASN.1 admits: the first component is 0, 1 or 2,
\* and the second is below 40 unless the first is 2.
OidIsAsn1 ==
    /\ OidHasTwo
    /\ pkt.attr[1][1] <= 2
    /\ pkt.attr[1][1] < 2 => pkt.attr[1][2] < 40

\* C1: Identifier round-trip: decoding the octets produced by encoding an
\* identifier of at least two components returns the same components in
\* the same order.  Stated for the identifiers ASN.1 admits, which are
\* among those the claim covers and which the encoder is documented to
\* encode.
C1_OidRoundTrip ==
    (pc = "oid_dissected" /\ OidIsAsn1) =>
        (out.ok /\ out.val = pkt.attr[1])

\* The VarInt encodings of the components of oid from position i on.
RECURSIVE SdnvFrom(_, _)
SdnvFrom(oid, i) ==
    IF i > Len(oid) THEN <<>> ELSE int2sdnv(oid[i]) \o SdnvFrom(oid, i + 1)

\* C2 as stated: the encoding starts with exactly one octet of value
\* components[0]*40 + components[1], followed by the VarInt encoding of
\* each remaining component.
C2_OneLeadingOctet ==
    (pc = "oid_built" /\ OidHasTwo) =>
        LET oid == pkt.attr[1]
        IN  wire = <<oid[1] * 40 + oid[2]>> \o SdnvFrom(oid, 3)

\* C2 amended: the encoding starts with the VarInt encoding of
\* components[0]*40 + components[1], which is one octet of that value when
\* the value is below 128, followed by the VarInt encoding of each
\* remaining component in order; (1,3,6) encodes to 0x2B 0x06.
C2_OidLayout ==
    (pc = "oid_built" /\ OidHasTwo) =>
        LET oid == pkt.attr[1]
            lead == oid[1] * 40 + oid[2]
        IN  /\ wire = int2sdnv(lead) \o SdnvFrom(oid, 3)
            /\ lead < 128 => wire = <<lead>> \o SdnvFrom(oid, 3)
            /\ oid = <<1, 3, 6>> => wire = <<43, 6>>

C2_Witness ==
    /\ pc = "oid_built"
    /\ pkt.attr = Some(<<1, 3, 6>>)
    /\ wire = <<43, 6>>

\* The identifier being encoded has fewer than two components.
OidIsShort == ~IsNone(pkt.attr) /\ Len(pkt.attr[1]) < 2

SdnvEnds(t) == {i \in 1..Len(t) : t[i] < 128}

\* Position of the first octet of the VarInt that ends at e.
SdnvStart(t, e) ==
    LET before == {i \in SdnvEnds(t) : i < e}
    IN  IF before = {} THEN 1
        ELSE 1 + CHOOSE m \in before : \A i \in before : i <= m

\* Value of the 7-bit groups t[b..e], most significant first.
RECURSIVE GroupVal(_, _, _)
GroupVal(t, b, e) ==
    IF b > e THEN 0 ELSE GroupVal(t, b, e - 1) * 128 + (t[e] % 128)

DefaultMid ==
    [nick_pres |-> None, param_pres |-> None, tag_pres |-> None,
     issuer_pres |-> None, pad |-> 0, issuer |-> None, nickname |-> None,
     oid_len |-> None, oid |-> None, parameters |-> None, tag |-> None]

\* PresenceFlag.i2m: an unset flag is derived from the presence of the
\* field it belongs to; present is "getattr(pkt, name) is not None".
PresenceFlag_i2m(x, present) ==
    IF IsNone(x) THEN (IF present THEN 1 ELSE 0) ELSE x[1]

\* A faulty variant: the issuer flag comes first.
Mid_flags_octet_issuer_first(p) ==
      128 * PresenceFlag_i2m(p.issuer_pres, ~IsNone(p.issuer))
    + 64 * PresenceFlag_i2m(p.nick_pres, ~IsNone(p.nickname))
    + 32 * PresenceFlag_i2m(p.param_pres, ~IsNone(p.parameters))
    + 16 * PresenceFlag_i2m(p.tag_pres, ~IsNone(p.tag))
    + (p.pad % 16)

\* The four one-bit flags and the four-bit pad, first field in the most
\* significant bit.
Mid_flags_octet(p) ==
      128 * PresenceFlag_i2m(p.nick_pres, ~IsNone(p.nickname))
    + 64 * PresenceFlag_i2m(p.param_pres, ~IsNone(p.parameters))
    + 32 * PresenceFlag_i2m(p.tag_pres, ~IsNone(p.tag))
    + 16 * PresenceFlag_i2m(p.issuer_pres, ~IsNone(p.issuer))
    + (p.pad % 16)

\* The conditions of the ConditionalFields: "pkt.<flag> == 1" reads the
\* field value of the flag, which is None while the flag is unset.
Mid_cond(flag) == flag = Some(1)

\* SdnvFieldLenField.i2m with length_of: an unset length is extracted from
\* the other field's i2len.
SdnvFieldLenField_i2m(x, extracted) ==
    SdnvField_i2m(IF IsNone(x) THEN Some(extracted) ELSE x)

\* StrField.i2m: None is the empty string.
StrField_i2m(x) == IF IsNone(x) THEN <<>> ELSE x[1]

\* str(pkt) for a Mid: every field's addfield in the order of fields_desc.
Mid_build(p) ==
       <<Mid_flags_octet(p)>>
    \o (IF Mid_cond(p.issuer_pres) THEN SdnvField_i2m(p.issuer) ELSE <<>>)
    \o (IF Mid_cond(p.nick_pres) THEN SdnvField_i2m(p.nickname) ELSE <<>>)
    \o SdnvFieldLenField_i2m(p.oid_len, OidField_i2len(p.oid))
    \o OidField_i2m(p.oid)
    \o (IF Mid_cond(p.param_pres) THEN StrField_i2m(p.parameters) ELSE <<>>)
    \o (IF Mid_cond(p.tag_pres) THEN SdnvField_i2m(p.tag) ELSE <<>>)

(***************************************************************************)
(* Mid(data): the fields are extracted in order while octets remain (the   *)
(* dissection loop ends when the string is empty, leaving the remaining    *)
(* fields at their defaults).  A dissection state is the octets left, the  *)
(* fields so far, and ok = FALSE once a getfield has raised.               *)
(***************************************************************************)
MidFail == [ok |-> FALSE, s |-> <<>>, pkt |-> DefaultMid]

\* The five bit fields share the first octet.
MidD_flags(st) ==
    IF ~st.ok \/ st.s = <<>> THEN st
    ELSE LET b == st.s[1]
         IN  [ok |-> TRUE, s |-> Tail(st.s),
              pkt |-> [st.pkt EXCEPT !.nick_pres = Some((b \div 128) % 2),
                                     !.param_pres = Some((b \div 64) % 2),
                                     !.tag_pres = Some((b \div 32) % 2),
                                     !.issuer_pres = Some((b \div 16) % 2),
                                     !.pad = b % 16]]

\* A ConditionalField holding an SdnvField, stored in field name.
MidD_cond_sdnv(st, flag, name) ==
    IF ~st.ok \/ st.s = <<>> THEN st
    ELSE IF ~Mid_cond(flag) THEN st
    ELSE LET r == SdnvField_getfield(st.s)
         IN  IF ~r.ok THEN MidFail
             ELSE [ok |-> TRUE, s |-> r.rest,
                   pkt |-> [st.pkt EXCEPT ![name] = Some(r.val)]]

MidD_issuer(st) == MidD_cond_sdnv(st, st.pkt.issuer_pres, "issuer")

MidD_nickname(st) == MidD_cond_sdnv(st, st.pkt.nick_pres, "nickname")

MidD_oid_len(st) ==
    IF ~st.ok \/ st.s = <<>> THEN st
    ELSE LET r == SdnvField_getfield(st.s)
         IN  IF ~r.ok THEN MidFail
             ELSE [ok |-> TRUE, s |-> r.rest,
                   pkt |-> [st.pkt EXCEPT !.oid_len = Some(r.val)]]

\* OidField with length_from = pkt.oid_len.
MidD_oid(st) ==
    IF ~st.ok \/ st.s = <<>> THEN st
    ELSE LET r == OidField_getfield(st.s, st.pkt.oid_len)
         IN  IF ~r.ok THEN MidFail
             ELSE [ok |-> TRUE, s |-> r.rest,
                   pkt |-> [st.pkt EXCEPT !.oid = Some(r.val)]]

\* StrField without a length takes every remaining octet.
MidD_parameters(st) ==
    IF ~st.ok \/ st.s = <<>> THEN st
    ELSE IF ~Mid_cond(st.pkt.param_pres) THEN st
    ELSE [ok |-> TRUE, s |-> <<>>,
          pkt |-> [st.pkt EXCEPT !.parameters = Some(st.s)]]

MidD_tag(st) == MidD_cond_sdnv(st, st.pkt.tag_pres, "tag")

\* The result: the fields, and the octets left over (the padding).
Mid_dissect(s) ==
    MidD_tag(MidD_parameters(MidD_oid(MidD_oid_len(MidD_nickname(
        MidD_issuer(MidD_flags([ok |-> TRUE, s |-> s, pkt |-> DefaultMid])))))))

(***************************************************************************)
(* Specification SpecMid: a Mid is constructed with some of its fields     *)
(* set, built into octets, and the octets are dissected as a Mid.          *)
(***************************************************************************)
FlagVals == {None, Some(0), Some(1)}

PadVals == {0, 5}

MidOids == {None, Some(<<1, 3, 6>>), Some(<<1, 3, 6, 1>>), Some(<<2, 48, 1>>)}

MidInit ==
    /\ pc = "mid_new"
    /\ pkt \in [nick_pres : FlagVals, param_pres : FlagVals,
                tag_pres : FlagVals, issuer_pres : FlagVals,
                pad : PadVals,
                issuer : {None, Some(1)},
                nickname : {None, Some(200)},
                oid_len : {None, Some(2)},
                oid : MidOids,
                parameters : {None, Some(<<>>), Some(<<7>>)},
                tag : {None, Some(5)}]
    /\ wire = <<>>
    /\ out = MidFail

MidBuild ==
    /\ pc = "mid_new"
    /\ wire' = Mid_build(pkt)
    /\ pc' = "mid_built"
    /\ UNCHANGED <<pkt, out>>

MidDissect ==
    /\ pc = "mid_built"
    /\ out' = Mid_dissect(wire)
    /\ pc' = "mid_dissected"
    /\ UNCHANGED <<pkt, wire>>

MidNext == MidBuild \/ MidDissect

SpecMid == MidInit /\ [][MidNext]_vars

\* The caller set only data fields: the flags, the pad and oid_len are
\* left to the encoder, and the record has an identifier.
MidPlain ==
    /\ IsNone(pkt.nick_pres) /\ IsNone(pkt.param_pres)
    /\ IsNone(pkt.tag_pres) /\ IsNone(pkt.issuer_pres)
    /\ pkt.pad = 0
    /\ IsNone(pkt.oid_len)
    /\ ~IsNone(pkt.oid)

\* Number of octets the encoder wrote for an optional VarInt field.
WrittenLen(flag, x) ==
    IF flag = Some(1) THEN Len(int2sdnv(SdnvValueOf(x))) ELSE 0

\* C3: the VarInt length prefix written before the identifier, when
\* oid_len is not set explicitly, equals the number of octets of the
\* identifier's encoding.
C3_OidLenPrefix ==
    (pc = "mid_built" /\ IsNone(pkt.oid_len)) =>
        LET before == 1 + WrittenLen(pkt.issuer_pres, pkt.issuer)
                        + WrittenLen(pkt.nick_pres, pkt.nickname)
            prefix == sdnv2int(Drop(wire, before))
        IN  prefix.ok /\ prefix.val = Len(OidField_i2m(pkt.oid))

\* C4: IdentifierRecord round-trip: decoding the encoding of a record
\* reproduces its issuer, nickname, identifier, parameters and tag, for
\* any combination of optional fields present.
C4_MidRoundTrip ==
    (pc = "mid_dissected" /\ MidPlain) =>
        /\ out.ok
        /\ out.pkt.issuer = pkt.issuer
        /\ out.pkt.nickname = pkt.nickname
        /\ out.pkt.oid = pkt.oid
        /\ out.pkt.parameters = pkt.parameters
        /\ out.pkt.tag = pkt.tag

\* Bit b (128, 64, 32 or 16) of the flags octet is set.
FlagBit(octet, b) == (octet \div b) % 2 = 1

\* C5: Presence-flag fidelity: each presence bit of an encoded record is
\* set exactly when the optional field is present, decoding reproduces
\* the same pattern of present and absent fields, and a record with only
\* nickname and tag present has exactly those two bits set.
C5_PresenceFidelity ==
    MidPlain =>
        /\ pc \in {"mid_built", "mid_dissected"} =>
              /\ FlagBit(wire[1], 128) <=> ~IsNone(pkt.nickname)
              /\ FlagBit(wire[1], 64) <=> ~IsNone(pkt.parameters)
              /\ FlagBit(wire[1], 32) <=> ~IsNone(pkt.tag)
              /\ FlagBit(wire[1], 16) <=> ~IsNone(pkt.issuer)
              /\ (/\ ~IsNone(pkt.nickname) /\ ~IsNone(pkt.tag)
                  /\ IsNone(pkt.parameters) /\ IsNone(pkt.issuer))
                    => wire[1] = 160
        /\ pc = "mid_dissected" =>
              /\ out.ok
              /\ IsNone(out.pkt.nickname) <=> IsNone(pkt.nickname)
              /\ IsNone(out.pkt.parameters) <=> IsNone(pkt.parameters)
              /\ IsNone(out.pkt.tag) <=> IsNone(pkt.tag)
              /\ IsNone(out.pkt.issuer) <=> IsNone(pkt.issuer)

\* The value of a presence flag: as set, or derived from the field.
FlagValue(flag, x) == IF IsNone(flag) THEN (IF IsNone(x) THEN 0 ELSE 1) ELSE flag[1]

\* C6 as stated: the first octet carries the flags as 0x80 nickname,
\* 0x40 parameters, 0x20 tag, 0x10 issuer, and its low four bits are zero
\* on every encode.
C6_LowBitsZero ==
    pc = "mid_built" =>
        wire[1] = 128 * FlagValue(pkt.nick_pres, pkt.nickname)
                + 64 * FlagValue(pkt.param_pres, pkt.parameters)
                + 32 * FlagValue(pkt.tag_pres, pkt.tag)
                + 16 * FlagValue(pkt.issuer_pres, pkt.issuer)

\* C6 amended: the first octet carries the flags as 0x80 nickname, 0x40
\* parameters, 0x20 tag, 0x10 issuer, and its low four bits hold the pad
\* field: they are zero on every encode that leaves pad at its default.
C6_FlagsOctetLayout ==
    pc = "mid_built" =>
        /\ FlagBit(wire[1], 128) <=> FlagValue(pkt.nick_pres, pkt.nickname) = 1
        /\ FlagBit(wire[1], 64) <=> FlagValue(pkt.param_pres, pkt.parameters) = 1
        /\ FlagBit(wire[1], 32) <=> FlagValue(pkt.tag_pres, pkt.tag) = 1
        /\ FlagBit(wire[1], 16) <=> FlagValue(pkt.issuer_pres, pkt.issuer) = 1
        /\ wire[1] % 16 = pkt.pad
        /\ pkt.pad = 0 => wire[1] % 16 = 0

C6_Witness ==
    /\ pc = "mid_built"
    /\ MidPlain
    /\ ~IsNone(pkt.nickname) /\ ~IsNone(pkt.tag)
    /\ IsNone(pkt.parameters) /\ IsNone(pkt.issuer)
    /\ wire[1] = 160

(***************************************************************************)
(* The data types of datatype.py as packets.  A packet is a record of its  *)
(* class name cls and its field values f.  A decoded packet comes with the *)
(* octets left over, which scapy keeps as the packet's Padding.            *)
(***************************************************************************)
Packet(cls, f) == [cls |-> cls, f |-> f]

\* scapy's Raw layer: octets that no class has interpreted.
Raw(load) == Packet("Raw", [load |-> load])

DissectFail == [ok |-> FALSE, pkt |-> Raw(<<>>), rest |-> <<>>]

Dissected(p, rest) == [ok |-> TRUE, pkt |-> p, rest |-> rest]

\* struct.pack with a big-endian format of size octets; a negative n is
\* written in two's complement.
RECURSIVE StructPack(_, _)
StructPack(n, size) ==
    IF size = 0 THEN <<>>
    ELSE Append(StructPack(n \div 256, size - 1), n % 256)

\* struct.unpack of an unsigned big-endian value.
RECURSIVE StructUnpack(_)
StructUnpack(b) ==
    IF b = <<>> THEN 0
    ELSE StructUnpack(SubSeq(b, 1, Len(b) - 1)) * 256 + b[Len(b)]

\* struct.unpack of a signed big-endian value.
StructUnpackSigned(b) ==
    IF b[1] < 128 THEN StructUnpack(b)
    ELSE -(StructUnpack([i \in 1..Len(b) |-> 255 - b[i]])) - 1

\* The size in octets of the fixed-width field of a scalar class.
FieldSize(cls) ==
    CASE cls = "Byte" -> 1
      [] cls \in {"Int", "UInt", "Float32"} -> 4
      [] cls \in {"Vast", "UVast", "Float64"} -> 8

IntClasses == {"Byte", "Int", "UInt", "Vast", "UVast"}

\* The floating-point classes carry their value as its IEEE 754 octets:
\* the model has no floating-point numbers.
FloatClasses == {"Float32", "Float64"}

SdnvClasses == {"Sdnv", "Ts"}

\* Field.i2m and addfield of a fixed-width field: None is written as 0.
Field_addfield(cls, x) ==
    IF cls \in FloatClasses
    THEN (IF IsNone(x) THEN [i \in 1..FieldSize(cls) |-> 0] ELSE x[1])
    ELSE StructPack(IF IsNone(x) THEN 0 ELSE x[1], FieldSize(cls))

\* Field.getfield of a fixed-width field: struct.unpack raises when fewer
\* than size octets are left.
Field_getfield(cls, s) ==
    LET sz == FieldSize(cls)
        b == SubSeq(s, 1, sz)
    IN  IF Len(s) < sz THEN DissectFail
        ELSE Dissected(
               Packet(cls, [value |->
                   IF cls \in FloatClasses THEN Some(b)
                   ELSE IF cls \in {"Int", "Vast"} THEN Some(StructUnpackSigned(b))
                   ELSE Some(StructUnpack(b))]),
               SubSeq(s, sz + 1, Len(s)))

\* Position of the first zero octet of s, or 0 when there is none.
FindNull(s) ==
    IF \E i \in 1..Len(s) : s[i] = 0
    THEN CHOOSE i \in 1..Len(s) : s[i] = 0 /\ \A j \in 1..(i - 1) : s[j] # 0
    ELSE 0

\* StrNullField.getfield: without a terminator every octet is the value.
StrNullField_getfield(s) ==
    LET l == FindNull(s)
    IN  IF l = 0 THEN Dissected(Packet("Str", [value |-> s]), <<>>)
        ELSE Dissected(Packet("Str", [value |-> SubSeq(s, 1, l - 1)]),
                       SubSeq(s, l + 1, Len(s)))

\* A faulty variant: the length is written as one more than the data has.
Blob_build_offbyone(f) ==
    SdnvFieldLenField_i2m(f.length, Len(f.data) + 1) \o f.data

\* str(pkt) for a Blob: the length of the data, then the data.
Blob_build(f) == SdnvFieldLenField_i2m(f.length, Len(f.data)) \o f.data

\* Blob(data): length, then (if octets remain) length octets of data.
Blob_dissect(s) ==
    IF s = <<>> THEN Dissected(Packet("Blob", [length |-> None, data |-> <<>>]), <<>>)
    ELSE LET r == SdnvField_getfield(s)
         IN  IF ~r.ok THEN DissectFail
             ELSE Dissected(
                    Packet("Blob", [length |-> Some(r.val),
                                    data |-> Take(r.rest, r.val)]),
                    Drop(r.rest, r.val))

(***************************************************************************)
(* packet.bind_layers: the bindings of TypedData in the order of the       *)
(* calls.                                                                  *)
(***************************************************************************)
\* A faulty variant: the tags of the last two bindings are exchanged.
Bindings_swapped ==
    << <<"Byte", 0>>, <<"Int", 1>>, <<"UInt", 2>>, <<"Vast", 3>>,
       <<"UVast", 4>>, <<"Float32", 5>>, <<"Float64", 6>>, <<"Str", 7>>,
       <<"Blob", 8>>, <<"Sdnv", 9>>, <<"Ts", 10>>,
       <<"Mid", 12>>, <<"MidCollection", 13>>,
       <<"TypedDataCollection", 16>>, <<"TimeRule", 18>> >>

Bindings ==
    << <<"Byte", 0>>, <<"Int", 1>>, <<"UInt", 2>>, <<"Vast", 3>>,
       <<"UVast", 4>>, <<"Float32", 5>>, <<"Float64", 6>>, <<"Str", 7>>,
       <<"Blob", 8>>, <<"Sdnv", 9>>, <<"Ts", 10>>,
       <<"Mid", 12>>, <<"MidCollection", 13>>,
       <<"TypedDataCollection", 18>>, <<"TimeRule", 16>> >>

\* The type_id a payload class overloads in TypedData (bind_top_down).
overload_type_id(cls) ==
    LET hits == {i \in 1..Len(Bindings) : Bindings[i][1] = cls}
    IN  IF hits = {} THEN None
        ELSE Some(Bindings[CHOOSE i \in hits : \A j \in hits : j <= i][2])

\* Packet.guess_payload_class: the first binding whose type_id matches,
\* else the Raw layer (bind_bottom_up).
guess_payload_class(type_id) ==
    LET hits == {i \in 1..Len(Bindings) : Bindings[i][2] = type_id}
    IN  IF hits = {} THEN "Raw"
        ELSE Bindings[CHOOSE i \in hits : \A j \in hits : i <= j][1]

CollectionClasses == {"DataCollection", "MidCollection", "TypedDataCollection"}

\* The class of the items of a collection (cls of its PacketListField).
ItemClass(cls) ==
    CASE cls = "DataCollection" -> "Blob"
      [] cls = "MidCollection" -> "Mid"
      [] cls = "TypedDataCollection" -> "TypedData"

(***************************************************************************)
(* str(pkt): the octets of every field in the order of fields_desc, then   *)
(* the payload.                                                            *)
(***************************************************************************)
RECURSIVE Pkt_build(_)
Pkt_build(p) ==
    LET f == p.f
    IN  CASE p.cls \in IntClasses \cup FloatClasses ->
               Field_addfield(p.cls, f.value)
          [] p.cls = "Str" -> f.value \o <<0>>
          [] p.cls \in SdnvClasses -> SdnvField_i2m(f.value)
          [] p.cls = "Blob" -> Blob_build(f)
          [] p.cls \in CollectionClasses ->
               SdnvFieldLenField_i2m(f.count, Len(f.items))
               \o Join([i \in 1..Len(f.items) |-> Pkt_build(f.items[i])])
          [] p.cls = "Mid" -> Mid_build(f)
          [] p.cls = "TimeRule" ->
               SdnvField_i2m(f.start) \o SdnvField_i2m(f.period)
               \o SdnvField_i2m(f.count)
               \o (IF IsNone(f.action) THEN <<>> ELSE Pkt_build(f.action[1]))
          [] p.cls = "TypedData" ->
               Field_addfield("Byte",
                   IF ~IsNone(f.type_id) \/ IsNone(f.payload) THEN f.type_id
                   ELSE overload_type_id(f.payload[1].cls))
               \o (IF IsNone(f.payload) THEN <<>> ELSE Pkt_build(f.payload[1]))
          [] p.cls = "Raw" -> f.load

(***************************************************************************)
(* cls(data): the fields are extracted in order while octets remain.       *)
(***************************************************************************)
RECURSIVE Pkt_dissect(_, _)
RECURSIVE PacketListField_getfield(_, _, _, _)

\* A faulty variant: each item is put in front of the earlier ones.
RECURSIVE PacketListField_getfield_prepend(_, _, _, _)
PacketListField_getfield_prepend(cls, c, remain, lst) ==
    IF remain = <<>> \/ c <= 0 THEN [rest |-> remain, val |-> lst]
    ELSE LET r == Pkt_dissect(cls, remain)
         IN  IF ~r.ok THEN [rest |-> <<>>, val |-> <<Raw(remain)>> \o lst]
             ELSE PacketListField_getfield_prepend(cls, c - 1, r.rest,
                                                   <<r.pkt>> \o lst)

\* The loop of PacketListField.getfield with count_from: c items are
\* still to come; an item whose dissection raises becomes a Raw item
\* holding every remaining octet.
PacketListField_getfield(cls, c, remain, lst) ==
    IF remain = <<>> \/ c <= 0 THEN [rest |-> remain, val |-> lst]
    ELSE LET r == Pkt_dissect(cls, remain)
         IN  IF ~r.ok THEN [rest |-> <<>>, val |-> Append(lst, Raw(remain))]
             ELSE PacketListField_getfield(cls, c - 1, r.rest, Append(lst, r.pkt))

\* A collection: count, then (if octets remain) the items.
Collection_dissect(cls, s) ==
    IF s = <<>> THEN Dissected(Packet(cls, [count |-> None, items |-> <<>>]), <<>>)
    ELSE LET r == SdnvField_getfield(s)
             l == PacketListField_getfield(ItemClass(cls), r.val, r.rest, <<>>)
         IN  IF ~r.ok THEN DissectFail
             ELSE Dissected(Packet(cls, [count |-> Some(r.val), items |-> l.val]),
                            l.rest)

\* One SdnvField of a TimeRule, stored in field name of the dissection
\* state st (as in MidD_cond_sdnv).
TimeRuleD_sdnv(st, name) ==
    IF ~st.ok \/ st.s = <<>> THEN st
    ELSE LET r == SdnvField_getfield(st.s)
         IN  IF ~r.ok THEN [st EXCEPT !.ok = FALSE]
             ELSE [ok |-> TRUE, s |-> r.rest,
                   pkt |-> [st.pkt EXCEPT ![name] = Some(r.val)]]

DefaultTimeRule ==
    [start |-> None, period |-> None, count |-> None, action |-> None]

\* A TimeRule: start, period, count, then the action as a MidCollection
\* (PacketField.getfield, which lets the collection's error through).
TimeRule_dissect(s) ==
    LET st == TimeRuleD_sdnv(TimeRuleD_sdnv(TimeRuleD_sdnv(
                  [ok |-> TRUE, s |-> s, pkt |-> DefaultTimeRule],
                  "start"), "period"), "count")
        a == Pkt_dissect("MidCollection", st.s)
    IN  IF ~st.ok THEN DissectFail
        ELSE IF st.s = <<>> THEN Dissected(Packet("TimeRule", st.pkt), <<>>)
        ELSE IF ~a.ok THEN DissectFail
        ELSE Dissected(Packet("TimeRule", [st.pkt EXCEPT !.action = Some(a.pkt)]),
                       a.rest)

\* A TypedData: type_id, then every remaining octet goes to the payload
\* class guessed from type_id; a payload whose dissection raises becomes a
\* Raw payload.
TypedData_dissect(s) ==
    IF s = <<>>
    THEN Dissected(Packet("TypedData", [type_id |-> None, payload |-> None]), <<>>)
    ELSE LET t == Field_getfield("Byte", s)
             r == Pkt_dissect(guess_payload_class(t.pkt.f.value[1]), t.rest)
         IN  IF t.rest = <<>>
             THEN Dissected(Packet("TypedData",
                      [type_id |-> t.pkt.f.value, payload |-> None]), <<>>)
             ELSE IF ~r.ok
             THEN Dissected(Packet("TypedData",
                      [type_id |-> t.pkt.f.value, payload |-> Some(Raw(t.rest))]), <<>>)
             ELSE Dissected(Packet("TypedData",
                      [type_id |-> t.pkt.f.value, payload |-> Some(r.pkt)]), r.rest)

Pkt_dissect(cls, s) ==
    CASE cls \in IntClasses \cup FloatClasses ->
           IF s = <<>> THEN Dissected(Packet(cls, [value |-> None]), <<>>)
           ELSE Field_getfield(cls, s)
      [] cls = "Str" ->
           IF s = <<>> THEN Dissected(Packet("Str", [value |-> <<>>]), <<>>)
           ELSE StrNullField_getfield(s)
      [] cls \in SdnvClasses ->
           IF s = <<>> THEN Dissected(Packet(cls, [value |-> None]), <<>>)
           ELSE LET r == SdnvField_getfield(s)
                IN  IF ~r.ok THEN DissectFail
                    ELSE Dissected(Packet(cls, [value |-> Some(r.val)]), r.rest)
      [] cls = "Blob" -> Blob_dissect(s)
      [] cls \in CollectionClasses -> Collection_dissect(cls, s)
      [] cls = "Mid" ->
           LET r == Mid_dissect(s)
           IN  IF ~r.ok THEN DissectFail ELSE Dissected(Packet("Mid", r.pkt), r.s)
      [] cls = "TimeRule" -> TimeRule_dissect(s)
      [] cls = "TypedData" -> TypedData_dissect(s)
      [] cls = "Raw" -> Dissected(Raw(s), <<>>)

(***************************************************************************)
(* Specification SpecData: a value of one of the data types is             *)
(* constructed, built into octets that are followed by the octets of       *)
(* whatever comes next, and dissected as its class; the octets are also    *)
(* dissected after their last octet was removed; and octets that were     *)
(* never built by this program are dissected as a TypedData.               *)
(***************************************************************************)
MaxItems == 2

MaxTypeId == 18

\* The lists of at most n elements of S.
ListsOf(S, n) == UNION {[1..k -> S] : k \in 0..n}

OptVals(S) == {None} \cup {Some(v) : v \in S}

ScalarData ==
         {Packet("Byte", [value |-> v]) : v \in OptVals({0, 7, 255})}
    \cup {Packet("Int", [value |-> v]) : v \in OptVals({0, 1, -2, 2147483647})}
    \cup {Packet("UInt", [value |-> v]) : v \in OptVals({0, 513, 2147483647})}
    \cup {Packet("Vast", [value |-> v]) : v \in OptVals({0, -2, 65536})}
    \cup {Packet("UVast", [value |-> v]) : v \in OptVals({0, 65536})}
    \cup {Packet("Float32", [value |-> v]) : v \in OptVals({<<63, 128, 0, 0>>})}
    \cup {Packet("Float64", [value |-> v]) :
              v \in OptVals({<<63, 240, 0, 0, 0, 0, 0, 0>>})}
    \cup {Packet("Str", [value |-> v]) : v \in {<<>>, <<104>>, <<104, 105>>}}
    \cup {Packet(c, [value |-> v]) :
              c \in SdnvClasses, v \in OptVals({0, 127, 128, 300})}

BlobData == {<<>>, <<7>>, <<104, 105>>, <<0, 255, 1>>}

Blobs ==
         {Packet("Blob", [length |-> None, data |-> d]) : d \in BlobData}
    \cup {Packet("Blob", [length |-> Some(5), data |-> <<104, 105>>])}

ItemBlobs == {Packet("Blob", [length |-> None, data |-> d]) :
                  d \in {<<>>, <<7>>, <<104, 105>>}}

ItemMids ==
    {Packet("Mid", DefaultMid),
     Packet("Mid", [DefaultMid EXCEPT !.oid = Some(<<1, 3, 6>>)]),
     Packet("Mid", [DefaultMid EXCEPT !.oid = Some(<<1, 3, 6, 1>>)]),
     Packet("Mid", [DefaultMid EXCEPT !.oid = Some(<<1, 3, 6>>),
                                      !.tag_pres = Some(1), !.tag = Some(5)])}

Collection(cls, items) == Packet(cls, [count |-> None, items |-> items])

\* TypedData()/val: the type_id is left to the binding of val's class.
Typed(val) == Packet("TypedData", [type_id |-> None, payload |-> Some(val)])

ItemTyped ==
    {Typed(Packet("Byte", [value |-> Some(7)])),
     Typed(Packet("Int", [value |-> Some(-2)])),
     Typed(Packet("Str", [value |-> <<104>>])),
     Typed(Packet("Sdnv", [value |-> Some(300)])),
     Typed(Packet("Blob", [length |-> None, data |-> <<104, 105>>])),
     Typed(Packet("Mid", [DefaultMid EXCEPT !.oid = Some(<<1, 3, 6>>)])),
     Typed(Collection("TypedDataCollection", <<>>))}

Collections ==
         {Collection("DataCollection", l) : l \in ListsOf(ItemBlobs, MaxItems)}
    \cup {Collection("MidCollection", l) : l \in ListsOf(ItemMids, MaxItems)}
    \cup {Collection("TypedDataCollection", l) :
              l \in ListsOf(ItemTyped, MaxItems)}

TimeRules ==
    {Packet("TimeRule", [start |-> st, period |-> pe, count |-> co,
                         action |-> ac]) :
        st \in OptVals({1000}), pe \in OptVals({60}), co \in OptVals({0, 3}),
        ac \in OptVals({Collection("MidCollection", l) :
                            l \in ListsOf(ItemMids, MaxItems)})}

PlainData == ScalarData \cup Blobs \cup ItemMids \cup Collections \cup TimeRules

TypedDatas ==
         {Typed(v) : v \in ScalarData \cup Blobs}
    \cup {Typed(v) : v \in {c \in Collections : Len(c.f.items) <= 1}}
    \cup {Typed(v) : v \in {t \in TimeRules :
              IsNone(t.f.action) \/ Len(t.f.action[1].f.items) <= 1}}
    \cup {Typed(v) : v \in ItemMids}

\* Octets that start with each type_id up to MaxTypeId.
TaggedOctets ==
    {<<t>> \o r : t \in 0..MaxTypeId,
                  r \in {<<>>, <<0>>, <<1, 2, 3, 4>>, <<129>>, <<104, 105, 0, 9>>}}

DataInit ==
    /\ \/ /\ pc = "data_new"
          /\ pkt \in [val : PlainData \cup TypedDatas, follow : FollowOctets]
          /\ wire = <<>>
       \/ /\ pc = "data_raw"
          /\ pkt = [val |-> Raw(<<>>), follow |-> <<>>]
          /\ wire \in TaggedOctets
    /\ out = DissectFail

DataBuild ==
    /\ pc = "data_new"
    /\ wire' = Pkt_build(pkt.val) \o pkt.follow
    /\ pc' = "data_built"
    /\ UNCHANGED <<pkt, out>>

DataDissect ==
    /\ pc = "data_built"
    /\ out' = Pkt_dissect(pkt.val.cls, wire)
    /\ pc' = "data_dissected"
    /\ UNCHANGED <<pkt, wire>>

\* The last octet of the built octets is lost.
DataTruncate ==
    /\ pc = "data_built"
    /\ wire # <<>>
    /\ wire' = SubSeq(wire, 1, Len(wire) - 1)
    /\ pc' = "data_cut"
    /\ UNCHANGED <<pkt, out>>

DataDissectCut ==
    /\ pc = "data_cut"
    /\ out' = Pkt_dissect(pkt.val.cls, wire)
    /\ pc' = "data_cutdone"
    /\ UNCHANGED <<pkt, wire>>

DataDissectRaw ==
    /\ pc = "data_raw"
    /\ out' = Pkt_dissect("TypedData", wire)
    /\ pc' = "data_rawdone"
    /\ UNCHANGED <<pkt, wire>>

DataNext ==
    \/ DataBuild
    \/ DataDissect
    \/ DataTruncate
    \/ DataDissectCut
    \/ DataDissectRaw

SpecData == DataInit /\ [][DataNext]_vars

(***************************************************************************)
(* Claims about TypedData and its bindings.                                *)
(***************************************************************************)
UnknownTypeIds == {11, 14, 15, 17}

\* C11: dissecting a TypedData whose first octet is 11, 14, 15 or 17
\* fails: it produces no value and takes no octet after the type_id.
C11_UnknownTagRejected ==
    (pc = "data_rawdone" /\ wire[1] \in UnknownTypeIds) => ~out.ok

\* The type-tag table of the specification.
TypeTag(cls) ==
    CASE cls = "Byte" -> 0
      [] cls = "Int" -> 1
      [] cls = "UInt" -> 2
      [] cls = "Vast" -> 3
      [] cls = "UVast" -> 4
      [] cls = "Float32" -> 5
      [] cls = "Float64" -> 6
      [] cls = "Str" -> 7
      [] cls = "Blob" -> 8
      [] cls = "Sdnv" -> 9
      [] cls = "Ts" -> 10
      [] cls = "Mid" -> 12
      [] cls = "MidCollection" -> 13
      [] cls = "TimeRule" -> 16
      [] cls = "TypedDataCollection" -> 18

TaggedClasses ==
    {"Byte", "Int", "UInt", "Vast", "UVast", "Float32", "Float64", "Str",
     "Blob", "Sdnv", "Ts", "Mid", "MidCollection", "TimeRule",
     "TypedDataCollection"}

\* The payload of a dissected TypedData is of class cls, or the octets
\* after the type_id were refused by cls and are kept as a Raw payload.
PayloadSelected(d, cls, octets) ==
    /\ d.ok
    /\ d.pkt.cls = "TypedData"
    /\ ~IsNone(d.pkt.f.payload)
    /\ \/ d.pkt.f.payload[1].cls = cls
       \/ /\ d.pkt.f.payload[1] = Raw(octets)
          /\ ~Pkt_dissect(cls, octets).ok

\* Each type_id of the table leads to its own class and to no other.
TagsDistinct ==
    \A c1, c2 \in TaggedClasses :
        guess_payload_class(TypeTag(c1)) = c2 <=> c1 = c2

\* C12: a TypedData built around a value of any class of the table starts with
\* the type_id the table gives that class, followed by the octets of the
\* value; dissecting octets that start with that type_id hands the rest
\* to that class; and no two classes have the same type_id.
C12_TypeTagTable ==
    /\ (/\ pc \in {"data_built", "data_dissected"}
        /\ pkt.val.cls = "TypedData"
        /\ pkt.val.f.payload[1].cls \in TaggedClasses) =>
          LET val == pkt.val.f.payload[1]
          IN  /\ wire = <<TypeTag(val.cls)>> \o Pkt_build(val) \o pkt.follow
              /\ pc = "data_dissected" =>
                    /\ out.pkt.f.type_id = Some(TypeTag(val.cls))
                    /\ PayloadSelected(out, val.cls, Tail(wire))
    /\ (pc = "data_rawdone" /\ Len(wire) > 1) =>
          \A cls \in TaggedClasses :
              wire[1] = TypeTag(cls) => PayloadSelected(out, cls, Tail(wire))
    /\ TagsDistinct

C12_Witness ==
    /\ \A cls \in TaggedClasses :
          \E v \in TypedDatas : v.f.payload[1].cls = cls
    /\ pc = "data_dissected"
    /\ pkt.val.cls = "TypedData"
    /\ pkt.val.f.payload[1].cls = "TimeRule"
    /\ ~IsNone(pkt.val.f.payload[1].f.action)
    /\ wire[1] = 16
    /\ out.pkt.f.payload[1].cls = "TimeRule"

(***************************************************************************)
(* Claims about octets that end too early.                                 *)
(***************************************************************************)
CompositeClasses ==
    {"Blob", "DataCollection", "TypedDataCollection", "Mid", "MidCollection",
     "TimeRule"}

\* The value leaves its length to the encoder, so its octets are a valid
\* encoding.
LengthDerived(p) == p.cls = "Blob" => IsNone(p.f.length)

\* C13: dissecting the octets of a Blob, a collection, a Mid or a
\* TimeRule after their last octet was removed fails (stated for the
\* values that leave at least one octet).
C13_TruncationDetected ==
    (/\ pc = "data_cutdone"
     /\ wire # <<>>
     /\ pkt.val.cls \in CompositeClasses
     /\ LengthDerived(pkt.val)
     /\ pkt.follow = <<>>) => ~out.ok

\* A dissected Blob holds at least length octets of data, a dissected
\* collection at least count items.
DeclaredKept(p) ==
    CASE p.cls = "Blob" ->
           IsNone(p.f.length) \/ Len(p.f.data) >= p.f.length[1]
      [] p.cls \in CollectionClasses ->
           IsNone(p.f.count) \/ Len(p.f.items) >= p.f.count[1]
      [] OTHER -> TRUE

\* C14: a Blob whose length, or a collection whose count, is more than
\* the octets hold is never dissected into a value with fewer octets or
\* fewer items than declared.
C14_DeclaredLength ==
    (pc \in {"data_dissected", "data_cutdone"} /\ out.ok) =>
        /\ DeclaredKept(out.pkt)
        /\ out.pkt.cls = "DataCollection" =>
              \A i \in 1..Len(out.pkt.f.items) : DeclaredKept(out.pkt.f.items[i])

(***************************************************************************)
(* Claims about Blob and DataCollection.                                   *)
(***************************************************************************)
\* C15: the octets of a Blob are the SDNV of the length of its data
\* followed by the data, and dissecting them returns the data and leaves
\* the octets after the Blob as the remainder.
C15_BlobEncoding ==
    (/\ pc \in {"data_built", "data_dissected"}
     /\ pkt.val.cls = "Blob"
     /\ IsNone(pkt.val.f.length)) =>
        LET d == pkt.val.f.data
        IN  /\ wire = int2sdnv(Len(d)) \o d \o pkt.follow
            /\ pc = "data_dissected" =>
                  /\ out.ok
                  /\ out.pkt.cls = "Blob"
                  /\ out.pkt.f.data = d
                  /\ out.rest = pkt.follow

C15_Witness ==
    /\ pc = "data_dissected"
    /\ pkt.val.cls = "Blob"
    /\ pkt.val.f.data = <<0, 255, 1>>
    /\ pkt.follow = <<129, 5>>
    /\ wire = <<3, 0, 255, 1, 129, 5>>
    /\ out.rest = <<129, 5>>

\* The data of the Blobs of a list, in order.
BlobDatas(items) == [i \in 1..Len(items) |-> items[i].f.data]

\* C16: a DataCollection without items is the single octet 0; the octets
\* of a DataCollection of N Blobs start with the SDNV of N, and
\* dissecting them returns the same N Blobs in the same order.
C16_DataCollectionRoundTrip ==
    (/\ pc \in {"data_built", "data_dissected"}
     /\ pkt.val.cls = "DataCollection") =>
        LET items == pkt.val.f.items
            n == int2sdnv(Len(items))
        IN  /\ items = <<>> => wire = <<0>> \o pkt.follow
            /\ Take(wire, Len(n)) = n
            /\ pc = "data_dissected" =>
                  /\ out.ok
                  /\ out.pkt.cls = "DataCollection"
                  /\ \A i \in 1..Len(out.pkt.f.items) :
                        out.pkt.f.items[i].cls = "Blob"
                  /\ BlobDatas(out.pkt.f.items) = BlobDatas(items)
                  /\ out.rest = pkt.follow

C16_Witness ==
    /\ pc = "data_dissected"
    /\ pkt.val.cls = "DataCollection"
    /\ BlobDatas(pkt.val.f.items) = << <<104, 105>>, <<>> >>
    /\ BlobDatas(out.pkt.f.items) = << <<104, 105>>, <<>> >>
    /\ pkt.follow = <<7, 128>>

(***************************************************************************)
(* Claims about MidCollection, TypedDataCollection and TimeRule.           *)
(***************************************************************************)
\* The dissected Mid d has the data fields of the Mid m.
SameMid(d, m) ==
    /\ d.cls = "Mid"
    /\ d.f.issuer = m.f.issuer
    /\ d.f.nickname = m.f.nickname
    /\ d.f.oid = m.f.oid
    /\ d.f.parameters = m.f.parameters
    /\ d.f.tag = m.f.tag

\* The dissected list has the Mids of items, in order.
SameMids(ditems, items) ==
    /\ Len(ditems) = Len(items)
    /\ \A i \in 1..Len(items) : SameMid(ditems[i], items[i])

\* str(pkt) of each item of a list, back to back.
ItemOctets(items) == Join([i \in 1..Len(items) |-> Pkt_build(items[i])])

\* Every Mid of the list has an identifier.
HaveOids(items) == \A i \in 1..Len(items) : ~IsNone(items[i].f.oid)

\* C17: the octets of a MidCollection of N Mids are the SDNV of N followed
\* by the octets of the N Mids, and dissecting them returns those N Mids
\* in order, each with its own fields, and leaves the octets after the
\* collection as the remainder (stated for Mids that have an identifier).
C17_MidCollectionRoundTrip ==
    (/\ pc \in {"data_built", "data_dissected"}
     /\ pkt.val.cls = "MidCollection"
     /\ HaveOids(pkt.val.f.items)) =>
        LET items == pkt.val.f.items
        IN  /\ wire = int2sdnv(Len(items)) \o ItemOctets(items) \o pkt.follow
            /\ pc = "data_dissected" =>
                  /\ out.ok
                  /\ SameMids(out.pkt.f.items, items)
                  /\ out.rest = pkt.follow

\* The dissected value d is the value v: the same class and the same
\* data, whatever lengths, counts and type_ids the encoder derived.
RECURSIVE SameValue(_, _)
SameValue(d, v) ==
    /\ d.cls = v.cls
    /\ CASE v.cls \in IntClasses \cup FloatClasses \cup SdnvClasses \cup {"Str"} ->
              d.f.value = v.f.value
         [] v.cls = "Blob" -> d.f.data = v.f.data
         [] v.cls = "Mid" -> SameMid(d, v)
         [] v.cls \in CollectionClasses ->
              /\ Len(d.f.items) = Len(v.f.items)
              /\ \A i \in 1..Len(v.f.items) : SameValue(d.f.items[i], v.f.items[i])
         [] v.cls = "TypedData" ->
              /\ IsNone(d.f.payload) = IsNone(v.f.payload)
              /\ ~IsNone(v.f.payload) => SameValue(d.f.payload[1], v.f.payload[1])
         [] OTHER -> d = v

\* The octets of one item of a TypedDataCollection: the type_id of the
\* table, then the octets of the value.
TaggedOctetsOf(item) ==
    <<TypeTag(item.f.payload[1].cls)>> \o Pkt_build(item.f.payload[1])

\* C18: the octets of a TypedDataCollection of N values are the SDNV of N
\* followed by the type_id and the octets of each value, without a length
\* per item; dissecting them returns the N values in order and leaves the
\* octets after the collection as the remainder.
C18_ExactConsumption ==
    (/\ pc \in {"data_built", "data_dissected"}
     /\ pkt.val.cls = "TypedDataCollection") =>
        LET items == pkt.val.f.items
        IN  /\ wire = int2sdnv(Len(items))
                      \o Join([i \in 1..Len(items) |-> TaggedOctetsOf(items[i])])
                      \o pkt.follow
            /\ pc = "data_dissected" =>
                  /\ out.ok
                  /\ SameValue(out.pkt, pkt.val)
                  /\ out.rest = pkt.follow

\* C19: the octets of a TimeRule are the SDNVs of start, period and count
\* followed by the octets of its action MidCollection, and dissecting
\* them returns the same start, period, count and action Mids (stated
\* for an action whose Mids have an identifier).
C19_TimeRuleLayout ==
    (/\ pc \in {"data_built", "data_dissected"}
     /\ pkt.val.cls = "TimeRule"
     /\ ~IsNone(pkt.val.f.action)
     /\ HaveOids(pkt.val.f.action[1].f.items)
     /\ pkt.follow = <<>>) =>
        LET f == pkt.val.f
        IN  /\ wire = int2sdnv(SdnvValueOf(f.start))
                      \o int2sdnv(SdnvValueOf(f.period))
                      \o int2sdnv(SdnvValueOf(f.count))
                      \o Pkt_build(f.action[1])
            /\ pc = "data_dissected" =>
                  /\ out.ok
                  /\ out.pkt.cls = "TimeRule"
                  /\ out.pkt.f.start = Some(SdnvValueOf(f.start))
                  /\ out.pkt.f.period = Some(SdnvValueOf(f.period))
                  /\ out.pkt.f.count = Some(SdnvValueOf(f.count))
                  /\ ~IsNone(out.pkt.f.action)
                  /\ SameMids(out.pkt.f.action[1].f.items, f.action[1].f.items)

\* No octet of s ends an SDNV.
Unterminated(s) == \A i \in 1..Len(s) : s[i] >= 128

\* C20: dissecting an Sdnv from octets that end before an octet with the
\* high bit clear fails, and dissecting a Str from octets without a zero
\* octet fails; neither returns a value (stated for octets that are not
\* empty).
C20_SdnvStrTruncation ==
    (pc = "data_cutdone" /\ wire # <<>>) =>
        /\ (pkt.val.cls \in SdnvClasses /\ Unterminated(wire)) => ~out.ok
        /\ (pkt.val.cls = "Str" /\ FindNull(wire) = 0) => ~out.ok

(***************************************************************************)
(* Specification SpecField: the DummyPacket of test_formats.py, a packet   *)
(* with the single field attr, which is a UInt8Field, an SdnvField or an   *)
(* OidField.  The packet is built (str(pkt)) and its field is assigned     *)
(* (pkt.setfieldval('attr', x)), in any order.  pkt holds the kind of the  *)
(* field and its value, wire the octets of the last build, out the last    *)
(* operation, its argument, whether it returned, and the number of         *)
(* operations so far.                                                      *)
(***************************************************************************)
MaxOps == 3

FieldKinds == {"UInt8Field", "SdnvField", "OidField"}

\* A sequence given to an OidField: a list or a tuple of its items.
SeqArg(type, items) == [type |-> type, items |-> items]

\* tuple(x)
Tuple(x) == x.items

OidArgItems ==
    {<<>>, <<1>>, <<1, 3>>, <<1, 3, 6>>, <<1, 3, 6, 1>>, <<2, 48, 1>>}

\* The values assigned to a field of each kind.
FieldArgs(kind) ==
    CASE kind = "UInt8Field" -> OptVals({0, 48, 255})
      [] kind = "SdnvField" -> OptVals({0, 5, 300})
      [] kind = "OidField" ->
           OptVals({SeqArg(t, i) : t \in {"list", "tuple"}, i \in OidArgItems})

\* Field.h2i: the value is stored as given.
Field_h2i(x) == [ok |-> TRUE, val |-> x]

\* A faulty variant: two elements are enough.
OidField_h2i_min2(x) ==
    IF IsNone(x) THEN [ok |-> TRUE, val |-> None]
    ELSE IF Len(x[1].items) < 2 THEN [ok |-> FALSE, val |-> None]
    ELSE [ok |-> TRUE, val |-> Some(Tuple(x[1]))]

\* OidField.h2i: ok is FALSE when ValueError is raised.
OidField_h2i(x) ==
    IF IsNone(x) THEN [ok |-> TRUE, val |-> None]
    ELSE IF Len(x[1].items) < 3 THEN [ok |-> FALSE, val |-> None]
    ELSE [ok |-> TRUE, val |-> Some(Tuple(x[1]))]

\* A faulty variant: an unset field is written as the octet 0.
DummyPacket_build_zero(p) ==
    CASE p.kind = "UInt8Field" -> Field_addfield("Byte", p.attr)
      [] p.kind = "SdnvField" -> SdnvField_addfield(<<>>, p.attr)
      [] p.kind = "OidField" ->
           IF IsNone(p.attr) THEN <<0>> ELSE OidField_addfield(<<>>, p.attr)

\* str(pkt) of a DummyPacket: the addfield of its field.
DummyPacket_build(p) ==
    CASE p.kind = "UInt8Field" -> Field_addfield("Byte", p.attr)
      [] p.kind = "SdnvField" -> SdnvField_addfield(<<>>, p.attr)
      [] p.kind = "OidField" -> OidField_addfield(<<>>, p.attr)

FieldInit ==
    /\ pc = "fld_new"
    /\ pkt \in [kind : FieldKinds, attr : {None}]
    /\ wire = <<>>
    /\ out = [op |-> "new", arg |-> None, ok |-> TRUE, n |-> 0]

\* data = str(pkt)
FieldBuild ==
    /\ pc \in {"fld_new", "fld_built", "fld_set", "fld_error"}
    /\ out.n < MaxOps
    /\ wire' = DummyPacket_build(pkt)
    /\ out' = [op |-> "build", arg |-> None, ok |-> TRUE, n |-> out.n + 1]
    /\ pc' = "fld_built"
    /\ UNCHANGED pkt

\* pkt.setfieldval('attr', x): the field's h2i, then the store; an h2i
\* that raises leaves the packet as it was.
FieldSet ==
    /\ pc \in {"fld_new", "fld_built", "fld_set", "fld_error"}
    /\ out.n < MaxOps
    /\ \E x \in FieldArgs(pkt.kind) :
          LET r == IF pkt.kind = "OidField" THEN OidField_h2i(x) ELSE Field_h2i(x)
          IN  /\ pkt' = IF r.ok THEN [pkt EXCEPT !.attr = r.val] ELSE pkt
              /\ out' = [op |-> "set", arg |-> x, ok |-> r.ok, n |-> out.n + 1]
              /\ pc' = IF r.ok THEN "fld_set" ELSE "fld_error"
    /\ UNCHANGED wire

FieldNext == FieldBuild \/ FieldSet

SpecField == FieldInit /\ [][FieldNext]_vars

(***************************************************************************)
(* Claims about building and assigning a single field.                     *)
(***************************************************************************)
\* What a step of building or assigning has to do for C21.
C21_Step ==
    /\ (out'.op = "build" /\ out'.n = out.n + 1) =>
          /\ pkt' = pkt
          /\ IsNone(pkt.attr) =>
                wire' = CASE pkt.kind = "UInt8Field" -> <<0>>
                          [] pkt.kind = "SdnvField" -> int2sdnv(0)
                          [] pkt.kind = "OidField" -> <<>>
          /\ (pkt.kind = "UInt8Field" /\ ~IsNone(pkt.attr)) =>
                wire' = <<pkt.attr[1]>>
    /\ (/\ out'.op = "set" /\ out'.n = out.n + 1
        /\ pkt.kind # "OidField" /\ ~IsNone(out'.arg)) =>
          pkt'.attr = out'.arg

\* C21: building a packet whose field is unset writes the octet 0 for a
\* UInt8Field, the SDNV of 0 for an SdnvField and nothing for an
\* OidField, and leaves the field unset; once v is assigned the field
\* reads v, and a UInt8Field is built as the single octet v.
C21_UnsetFieldEncoding == [][C21_Step]_vars

C21_Witness ==
    /\ pc = "fld_built"
    /\ pkt.kind = "OidField"
    /\ IsNone(pkt.attr)
    /\ wire = <<>>
    /\ out.n = 1

\* What a step of assigning to an OidField has to do for C22.
C22_Step ==
    (out'.op = "set" /\ out'.n = out.n + 1 /\ pkt.kind = "OidField") =>
        LET x == out'.arg
        IN  IF ~IsNone(x) /\ Len(x[1].items) < 3
            THEN ~out'.ok /\ pkt' = pkt
            ELSE /\ out'.ok
                 /\ pkt'.attr = IF IsNone(x) THEN None ELSE Some(x[1].items)

\* C22: assigning a sequence of fewer than 3 elements to an OidField
\* raises and leaves the field as it was; assigning None or a sequence
\* of 3 or more elements stores it, as a tuple, without an error.
C22_OidAssignGuard == [][C22_Step]_vars

C22_Witness ==
    /\ pc = "fld_error"
    /\ pkt.kind = "OidField"
    /\ pkt.attr = Some(<<1, 3, 6>>)
    /\ out.arg = Some(SeqArg("list", <<1, 3>>))
    /\ ~out.ok

(***************************************************************************)
(* amp_adm.py: the OIDs of the statements of a YANG module.  The argument  *)
(* of a statement is text, a sequence of characters.                       *)
(***************************************************************************)
Digits == <<"0", "1", "2", "3", "4", "5", "6", "7", "8", "9">>

IsDigit(c) == \E i \in 1..Len(Digits) : Digits[i] = c

DigitValue(c) == (CHOOSE i \in 1..Len(Digits) : Digits[i] = c) - 1

\* int(text): ok is FALSE when ValueError is raised.
RECURSIVE IntOfDigits(_)
IntOfDigits(text) ==
    IF text = <<>> THEN 0
    ELSE IntOfDigits(SubSeq(text, 1, Len(text) - 1)) * Len(Digits)
         + DigitValue(text[Len(text)])

int(text) ==
    IF text = <<>> \/ \E i \in 1..Len(text) : ~IsDigit(text[i])
    THEN [ok |-> FALSE, val |-> 0]
    ELSE [ok |-> TRUE, val |-> IntOfDigits(text)]

\* str(n) for n >= 0
RECURSIVE str(_)
str(n) ==
    IF n < Len(Digits) THEN <<Digits[n + 1]>>
    ELSE Append(str(n \div Len(Digits)), Digits[(n % Len(Digits)) + 1])

\* text.split('.')
RECURSIVE split(_)
split(text) ==
    IF \A i \in 1..Len(text) : text[i] # "."
    THEN <<text>>
    ELSE LET d == CHOOSE i \in 1..Len(text) :
                      text[i] = "." /\ \A j \in 1..(i - 1) : text[j] # "."
         IN  <<SubSeq(text, 1, d - 1)>> \o split(SubSeq(text, d + 1, Len(text)))

\* '.'.join(parts)
RECURSIVE join(_)
join(parts) ==
    IF parts = <<>> THEN <<>>
    ELSE IF Len(parts) = 1 THEN parts[1]
    ELSE parts[1] \o <<".">> \o join(Tail(parts))

\* [int(dig) for dig in text.split('.')]; the texts are dotted OIDs, as
\* check_oid admits them.
ParseOid(text) == [i \in 1..Len(split(text)) |-> int(split(text)[i]).val]

\* '.'.join([str(dig) for dig in oid])
OidText(oid) == join([i \in 1..Len(oid) |-> str(oid[i])])

(***************************************************************************)
(* The statements of the module form a chain: node 1 is the module, node   *)
(* k + 1 is the container statement among the sub-statements of node k.    *)
(* A tree records the sub-statements of each node, in order, and the       *)
(* i_dcb_oid attribute of each node (None while the node has none).  A     *)
(* sub-statement has a keyword and an argument; its parent is its node     *)
(* when up is 0 and the sub-statement up of the same node otherwise.       *)
(***************************************************************************)
Depth == 3

Statement(keyword, arg, up) ==
    [keyword |-> keyword, arg |-> arg, up |-> up, i_dcb_oid |-> None]

\* stmt.parent.search_one((MODULE_NAME, 'fulloid')) is not None
search_one_fulloid(tree, k) ==
    \E j \in 1..Len(tree.substmts[k]) : tree.substmts[k][j].keyword = "fulloid"

\* _find_ancestor_oid(stmt) for the node k: the i_dcb_oid of the nearest
\* node above k that has one, else None.
RECURSIVE find_ancestor_oid(_, _)
find_ancestor_oid(tree, k) ==
    IF k = 1 THEN None
    ELSE IF ~IsNone(tree.i_dcb_oid[k - 1]) THEN tree.i_dcb_oid[k - 1]
    ELSE find_ancestor_oid(tree, k - 1)

\* err_add(ctx.errors, stmt.pos, code, ())
err_add(errors, k, i, code) ==
    Append(errors, [node |-> k, index |-> i, code |-> code])

Validated(tree, errors, raised) ==
    [tree |-> tree, errors |-> errors, raised |-> raised]

\* _stmt_set_fulloid(ctx, stmt) for sub-statement i of node k.
stmt_set_fulloid(tree, errors, k, i) ==
    LET stmt == tree.substmts[k][i]
        has == IF stmt.up = 0 THEN ~IsNone(tree.i_dcb_oid[k])
               ELSE ~IsNone(tree.substmts[k][stmt.up].i_dcb_oid)
        oid == Some(ParseOid(stmt.arg))
    IN  IF has THEN Validated(tree, err_add(errors, k, i, "AMP_DUPE_OID"), FALSE)
        ELSE IF stmt.up = 0
        THEN Validated([tree EXCEPT !.i_dcb_oid[k] = oid], errors, FALSE)
        ELSE Validated([tree EXCEPT !.substmts[k][stmt.up].i_dcb_oid = oid],
                       errors, FALSE)

\* _stmt_set_suboid(ctx, stmt) for sub-statement i of node k; raised is
\* TRUE when int(stmt.arg) raises ValueError.
stmt_set_suboid(tree, errors, k, i) ==
    LET stmt == tree.substmts[k][i]
        oid == find_ancestor_oid(tree, k)
        n == int(stmt.arg)
        new == oid[1] \o <<n.val>>
    IN  IF search_one_fulloid(tree, k)
        THEN Validated(tree, err_add(errors, k, i, "AMP_DUPE_OID"), FALSE)
        ELSE IF IsNone(oid)
        THEN Validated(tree, err_add(errors, k, i, "AMP_BAD_SUBID"), FALSE)
        ELSE IF ~n.ok THEN Validated(tree, errors, TRUE)
        ELSE Validated(
               [tree EXCEPT !.i_dcb_oid[k] = Some(new),
                            !.substmts[k] =
                                Append(@, Statement("fulloid", OidText(new), i))],
               errors, FALSE)

(***************************************************************************)
(* Specification SpecAdm: pyang validates the statements of a module in    *)
(* the order of the text, every statement before its sub-statements, and   *)
(* calls _stmt_set_fulloid and _stmt_set_suboid on the statements with     *)
(* these keywords.  pkt holds the tree, wire the position of the walk (the *)
(* index of the next sub-statement of each node on the path from the       *)
(* module to the current node), out the ctx.errors and the statement       *)
(* validated last.                                                         *)
(***************************************************************************)
\* The sequences that hold every element of S once.
Orderings(S) ==
    {q \in [1..Cardinality(S) -> S] :
        \A i, j \in 1..Cardinality(S) : q[i] = q[j] => i = j}

\* The texts given to suboid: a number, and a dotted OID, which the
\* argument type of suboid admits as well.
SuboidArgs == {<<"7">>, <<"3", ".", "4">>}

\* The fulloid a node may carry.
FulloidArg(k) == OidText(<<1, 3, 6, k>>)

\* The sub-statements node k may have: at most one fulloid and one
\* suboid (none for the module), and the container that is node k + 1.
NodeSubstmts(k) ==
    LET full == {Statement("fulloid", FulloidArg(k), 0)}
        sub == IF k = 1 THEN {}
               ELSE {Statement("suboid", a, 0) : a \in SuboidArgs}
        child == IF k = Depth THEN {} ELSE {Statement("container", <<>>, 0)}
    IN  UNION {Orderings(f \cup t \cup child) :
                  f \in SUBSET full,
                  t \in {{}} \cup {{x} : x \in sub}}

\* The sub-statements of the nodes 1 to k of a module.
RECURSIVE Chains(_)
Chains(k) ==
    IF k = 0 THEN {<<>>}
    ELSE {Append(c, n) : c \in Chains(k - 1), n \in NodeSubstmts(k)}

NoStatement == [keyword |-> "module", node |-> 0, index |-> 0]

AdmInit ==
    /\ pc = "adm_walk"
    /\ \E subs \in Chains(Depth) :
          pkt = [substmts |-> subs, i_dcb_oid |-> [k \in 1..Depth |-> None]]
    /\ wire = <<1>>
    /\ out = [errors |-> <<>>, last |-> NoStatement]

\* The node the walk is in, the index of its next sub-statement, and
\* the position after that sub-statement.
AdmNode == Len(wire)

AdmIndex == wire[Len(wire)]

AdmAtEnd == AdmIndex > Len(pkt.substmts[AdmNode])

AdmAdvance == [wire EXCEPT ![Len(wire)] = @ + 1]

AdmAt(keyword) ==
    /\ pc = "adm_walk"
    /\ ~AdmAtEnd
    /\ pkt.substmts[AdmNode][AdmIndex].keyword = keyword

AdmValidated(keyword, r) ==
    /\ pkt' = r.tree
    /\ out' = [errors |-> r.errors,
               last |-> [keyword |-> keyword, node |-> AdmNode,
                         index |-> AdmIndex]]
    /\ wire' = AdmAdvance
    /\ pc' = IF r.raised THEN "adm_raised" ELSE "adm_walk"

AdmFulloid ==
    /\ AdmAt("fulloid")
    /\ AdmValidated("fulloid",
                    stmt_set_fulloid(pkt, out.errors, AdmNode, AdmIndex))

AdmSuboid ==
    /\ AdmAt("suboid")
    /\ AdmValidated("suboid",
                    stmt_set_suboid(pkt, out.errors, AdmNode, AdmIndex))

\* The walk enters a container: no validation function is registered.
AdmDescend ==
    /\ AdmAt("container")
    /\ wire' = Append(AdmAdvance, 1)
    /\ UNCHANGED <<pc, pkt, out>>

\* Every sub-statement of the node was visited.
AdmReturn ==
    /\ pc = "adm_walk"
    /\ AdmAtEnd
    /\ IF AdmNode = 1
       THEN pc' = "adm_done" /\ wire' = wire
       ELSE pc' = pc /\ wire' = SubSeq(wire, 1, Len(wire) - 1)
    /\ UNCHANGED <<pkt, out>>

AdmNext == AdmFulloid \/ AdmSuboid \/ AdmDescend \/ AdmReturn

SpecAdm == AdmInit /\ [][AdmNext]_vars

(***************************************************************************)
(* Claims about the OIDs of a module's statements.                         *)
(***************************************************************************)
\* The nodes above k that have an OID.
OidAncestors(tree, k) == {j \in 1..(k - 1) : ~IsNone(tree.i_dcb_oid[j])}

\* The nearest of them.
NearestOidAncestor(tree, k) ==
    CHOOSE j \in OidAncestors(tree, k) : \A h \in OidAncestors(tree, k) : h <= j

\* What the validation of the suboid statement i of node k has to do.
C23_Step ==
    (out'.last # out.last /\ out'.last.keyword = "suboid") =>
        LET k == out'.last.node
            i == out'.last.index
            subid == ParseOid(pkt.substmts[k][i].arg)
            recorded(code) ==
                out'.errors = Append(out.errors,
                                     [node |-> k, index |-> i, code |-> code])
        IN  IF search_one_fulloid(pkt, k)
            THEN /\ recorded("AMP_DUPE_OID")
                 /\ pkt'.i_dcb_oid[k] = pkt.i_dcb_oid[k]
            ELSE IF OidAncestors(pkt, k) = {}
            THEN /\ recorded("AMP_BAD_SUBID")
                 /\ IsNone(pkt'.i_dcb_oid[k])
            ELSE LET a == NearestOidAncestor(pkt, k)
                 IN  /\ pkt'.i_dcb_oid[k] = Some(pkt.i_dcb_oid[a][1] \o subid)
                     /\ pkt'.i_dcb_oid[a] = pkt.i_dcb_oid[a]

\* C23: when a suboid statement is validated and its parent has no
\* fulloid sub-statement, the parent's OID becomes the OID of the nearest
\* ancestor that has one with the sub-id appended, and that ancestor's
\* OID stays; without such an ancestor AMP_BAD_SUBID is recorded and the
\* parent gets no OID; when the parent has a fulloid sub-statement
\* AMP_DUPE_OID is recorded and the parent's OID stays.
C23_SuboidInheritance == [][C23_Step]_vars

====
